---- MODULE Spec2Model ----
(***************************************************************************)
(* Model of tunnel.go (package iris): one tunnel between two endpoints.    *)
(* Endpoint "B" runs the application-to-Iris half (Send, sendChunk,        *)
(* drainAllowance, handleAllowance); endpoint "A" runs the Iris-to-        *)
(* application half (handleTransfer, Recv, fetchMessage).  Both endpoints  *)
(* run Close and handleClose.  The relay between them is an order-         *)
(* preserving queue of transfers (B to A) and an unordered bag of          *)
(* allowance grants (A to B; each grant is sent from its own goroutine).   *)
(***************************************************************************)
EXTENDS Integers, Sequences, FiniteSets, Bags, TLC

\* ---------------------------------------------------------------- bounds
\* Initial credit granted by each side (defaultTunnelBuffer), scaled down.
DefaultTunnelBuffer == 3
\* Number of non-empty Send calls in a run.
MaxMsgs == 2
\* Number of Close calls in a run.
MaxCloses == 2
\* Longest message: one byte more than the initial credit.
MaxLen == DefaultTunnelBuffer + 1
\* Largest negotiated chunk limit.
MaxChunk == DefaultTunnelBuffer

\* Number of tunnels a connection makes in a run (newTunnel calls).
MaxTunnels == 2

Ends == {"A", "B"}
\* Goroutines that run initTunnel or acceptTunnel on the connection.
Shakers == {"h1", "h2"}
\* Tunnel ids the connection hands out, and the nil *Tunnel.
TunIds == 0..(MaxTunnels - 1)
NoTun == -1
\* Cluster names and timeouts (in ms) given to initTunnel.
Clusters == {"", "cluster"}
Timeouts == {0, 1}
\* Chunk limits the relay and the accepting side choose from.
ChunkLimits == {1, MaxChunk}
Senders == {"s1", "s2"}
Receivers == {"r1", "r2"}
Closers == {"c1", "c2"}
\* Close reasons delivered by the relay ("" is the graceful one).
Reasons == {"", "peer crashed"}

\* Errors are pairs <<kind, text>>; NoErr is the nil error.
NoErr == <<"nil", "">>
ErrClosed == <<"ErrClosed", "">>
ErrTimeout == <<"ErrTimeout", "">>
\* errors.New("nil or empty message")
ErrEmpty == <<"error", "nil or empty message">>
\* What a failing send primitive of the connection returns.
ErrTransport == <<"error", "transport">>
\* fmt.Errorf("remote error: %s", reason)
RemoteError(reason) == <<"remote error", reason>>
\* The call has not returned yet.
Pending == <<"pending", "">>
\* errors.New("empty cluster identifier"), fmt.Errorf("invalid timeout ...")
ErrCluster == <<"error", "empty cluster identifier">>
ErrInvalidTimeout == <<"error", "invalid timeout">>
\* A nil []byte (messages on the wire are never empty).
NilMsg == <<>>
\* The nil chunkBuf, and no panic.
NilBuf == [nil |-> TRUE, data |-> <<>>, cap |-> 0]
NoPanic == ""

\* The k-th message of a run, of length len: bytes differ at every position
\* and between messages.
Msg(k, len) == [i \in 1..len |-> 10 * k + i]

Min(a, b) == IF a < b THEN a ELSE b

VARIABLES
  chunkLimit,   \* Tunnel.chunkLimit (the same on both endpoints)
  chunkBuf,     \* A: Tunnel.chunkBuf, NilBuf or [nil, data, cap]
  itoaBuf,      \* A: Tunnel.itoaBuf, the queue of assembled messages
  itoaSign,     \* A: Tunnel.itoaSign holds a token (channel of capacity 1)
  atoiSpace,    \* B: Tunnel.atoiSpace
  atoiSign,     \* B: Tunnel.atoiSign holds a token (channel of capacity 1)
  term,         \* term[e]: Tunnel.term of endpoint e is closed
  stat,         \* stat[e]: Tunnel.stat of endpoint e
  panicked,     \* panicked[e]: the panic that ended endpoint e's process, or ""
  xferQ,        \* transfers sent by B and not yet handled by A (in order)
  grants,       \* allowance grants sent by A and not yet handled by B (a bag)
  active,       \* the application goroutines that call into the tunnel
  spc,          \* spc[s]: where sender s is in Send / sendChunk
  smsg,         \* smsg[s]: the message of its Send call
  spos,         \* spos[s]: pos of the loop in Send
  stimed,       \* stimed[s]: the Send call has a non-zero timeout
  sres,         \* sres[s]: what its last Send call returned
  rpc,          \* rpc[r]: where receiver r is in Recv
  rtimed,       \* rtimed[r]: the Recv call has a non-zero timeout
  rres,         \* rres[r]: what its last Recv call returned (<<msg, err>>)
  cpc,          \* cpc[c]: where closer c is in Close
  \* ------------------------------------------------------------ history
  nsent,        \* number of non-empty Send calls so far
  fullySent,    \* messages whose last chunk was handed to the relay, in order
  recvd,        \* messages returned by Recv, in order
  msgXfers,     \* msgXfers[s]: transfers emitted by the current Send call of s
  reclaimed,    \* sum of the partial bytes handleTransfer discarded
  raises,       \* number of times handleTransfer raised the arrival signal
  enqueued,     \* number of messages handleTransfer pushed on itoaBuf
  granted,      \* sum of the bytes added by handleAllowance
  drained,      \* sum of the bytes subtracted by drainAllowance
  sentBytes,    \* sum of the bytes handed to sendTunnelTransfer
  paid,         \* paid[s]: bytes drainAllowance subtracted for the pending chunk
  grantLog,     \* sum of the bytes A granted after the handshake
  sendFailed,   \* some Send call returned an error after spending credit
  sAtTerm,      \* sAtTerm[s]: "start" if the tunnel was terminal when the Send
                \* call began, "blocked" if handleClose found it blocked
  rAtTerm,      \* rAtTerm[r]: the same for the Recv call of r
  cAtTerm,      \* cAtTerm[c]: "blocked" if handleClose found the Close call blocked
  closeLog,     \* results of the Close calls that returned, in order
  closeSent,    \* number of sendTunnelClose calls that went out
  ncloses,      \* number of Close calls so far
  \* ------------------------------------------- the connection's handshakes
  tunLive,      \* Connection.tunLive: [nil, ids], the registry of tunnel ids
  tunIdx,       \* Connection.tunIdx, the next tunnel id
  connTerm,     \* Connection.term is closed
  tunnels,      \* tunnels[id]: chunkLimit of tunnel id, the handleInitResult
                \* calls waiting to send on its init channel, and the history
                \* of its handshake
  hs            \* hs[p]: where goroutine p is in initTunnel / acceptTunnel

tunVars == <<chunkLimit, chunkBuf, itoaBuf, itoaSign, atoiSpace, atoiSign,
             term, stat, panicked>>
netVars == <<xferQ, grants>>
sendVars == <<spc, smsg, spos, stimed, sres>>
recvVars == <<rpc, rtimed, rres>>
closeHist == <<cAtTerm, closeLog, closeSent, ncloses>>
histVars == <<nsent, fullySent, recvd, msgXfers, reclaimed, raises, enqueued,
              granted, drained, sentBytes, paid, grantLog, sendFailed, sAtTerm, rAtTerm,
              cAtTerm, closeLog, closeSent, ncloses>>
connVars == <<tunLive, tunIdx, connTerm, tunnels, hs>>
dataVars == <<tunVars, netVars, active, sendVars, recvVars, cpc, histVars>>
vars == <<tunVars, netVars, active, sendVars, recvVars, cpc, histVars, connVars>>

\* The endpoint each application goroutine works on.
TunOf(p) == IF p \in Senders THEN "B" ELSE "A"

\* A goroutine takes steps while it is one of the callers and its process lives.
Runs(p) == p \in active /\ panicked[TunOf(p)] = NoPanic

RECURSIVE SumLen(_)
SumLen(q) == IF q = <<>> THEN 0 ELSE Len(Head(q)) + SumLen(Tail(q))

RECURSIVE SumChunks(_)
SumChunks(q) == IF q = <<>> THEN 0 ELSE Len(Head(q).chunk) + SumChunks(Tail(q))

RECURSIVE SumBag(_)
SumBag(b) ==
  IF BagToSet(b) = {} THEN 0
  ELSE LET n == CHOOSE x \in BagToSet(b) : TRUE
       IN  n * CopiesIn(n, b) + SumBag([x \in BagToSet(b) \ {n} |-> b[x]])

\* go t.conn.sendTunnelAllowance(t.id, n): the grant is on its way to the peer.
SendAllowance(b, n) == b (+) SetToBag({n})

\* ------------------------------------------------------------------ Init
\* Both handshakes are over (initTunnel on one side, acceptTunnel on the
\* other): the chunk limit is agreed, the fields are as newTunnel left them,
\* and A's grant of the initial credit is on its way to B.
InitData(callers) ==
  /\ chunkLimit \in 1..MaxChunk
  /\ chunkBuf = NilBuf
  /\ itoaBuf = <<>>
  /\ itoaSign = FALSE
  /\ atoiSpace = 0
  /\ atoiSign = FALSE
  /\ term = [e \in Ends |-> FALSE]
  /\ stat = [e \in Ends |-> NoErr]
  /\ panicked = [e \in Ends |-> NoPanic]
  /\ xferQ = <<>>
  /\ grants = SetToBag({DefaultTunnelBuffer})
  /\ active = callers
  /\ spc = [s \in Senders |-> "idle"]
  /\ smsg = [s \in Senders |-> <<>>]
  /\ spos = [s \in Senders |-> 0]
  /\ stimed = [s \in Senders |-> FALSE]
  /\ sres = [s \in Senders |-> Pending]
  /\ rpc = [r \in Receivers |-> "idle"]
  /\ rtimed = [r \in Receivers |-> FALSE]
  /\ rres = [r \in Receivers |-> <<NilMsg, Pending>>]
  /\ cpc = [c \in Closers |-> "idle"]
  /\ nsent = 0
  /\ fullySent = <<>>
  /\ recvd = <<>>
  /\ msgXfers = [s \in Senders |-> <<>>]
  /\ reclaimed = 0
  /\ raises = 0
  /\ enqueued = 0
  /\ granted = 0
  /\ drained = 0
  /\ sentBytes = 0
  /\ paid = [s \in Senders |-> 0]
  /\ grantLog = 0
  /\ sendFailed = FALSE
  /\ sAtTerm = [s \in Senders |-> "no"]
  /\ rAtTerm = [r \in Receivers |-> "no"]
  /\ cAtTerm = [c \in Closers |-> "no"]
  /\ closeLog = <<>>
  /\ closeSent = 0
  /\ ncloses = 0

\* A tunnel as newTunnel makes it (chunkLimit 0, nobody at the init
\* channel), with the history of its handshake: its initiation went out,
\* the chunk limit it was given, the handleInitResult calls made on it, the
\* default grants sent.
NewTun == [chunkLimit |-> 0, init |-> <<>>, asked |-> FALSE, agreed |-> 0,
           results |-> 0, allowances |-> 0]

\* A goroutine outside initTunnel and acceptTunnel: res is what its last call
\* returned; kind, tun and err are the call in progress and its locals.
IdleShaker == [pc |-> "idle", kind |-> "none", tun |-> NoTun, err |-> NoErr,
               res |-> <<NoTun, Pending>>]

\* The connection with the handshake of tunnel 0 over: the tunnel is in the
\* registry with the agreed chunk limit, its default grant sent.
ConnDone ==
  /\ tunLive = [nil |-> FALSE, ids |-> {0}]
  /\ tunIdx = 1
  /\ connTerm = FALSE
  /\ tunnels = [id \in TunIds |->
                  IF id = 0
                  THEN [NewTun EXCEPT !.chunkLimit = chunkLimit, !.asked = TRUE,
                                      !.agreed = chunkLimit, !.results = 1,
                                      !.allowances = 1]
                  ELSE NewTun]
  /\ hs = [p \in Shakers |-> IdleShaker]

\* A connection that has made no tunnel yet: up, or terminated already (its
\* registry nil and its term channel closed).
ConnFresh ==
  /\ \E down \in BOOLEAN :
       /\ tunLive = [nil |-> down, ids |-> {}]
       /\ connTerm = down
  /\ tunIdx = 0
  /\ tunnels = [id \in TunIds |-> NewTun]
  /\ hs = [p \in Shakers |-> IdleShaker]

InitOf(callers) == InitData(callers) /\ ConnDone

\* One goroutine sends on B, one receives on A, two may close A.
Init == InitOf({"s1", "r1", "c1", "c2"})

\* ------------------------------------------------------- Send, sendChunk
\* end of the chunk that starts at pos (Send, lines 169-172)
ChunkEnd(pos, limit, len) == Min(pos + limit, len)

\* a Send that tags every chunk with the message length
SizeOrCont_always(pos, len) == len

\* the tag of the chunk that starts at pos (Send, lines 173-176)
SizeOrCont(pos, len) == IF pos # 0 THEN 0 ELSE len

\* message[pos:end]
Slice(message, pos, end) == SubSeq(message, pos + 1, end)

\* the chunk sender s is working on
CurChunk(s) == Slice(smsg[s], spos[s], ChunkEnd(spos[s], chunkLimit, Len(smsg[s])))

\* a test that lets a chunk through one byte short of credit
HasAllowance_lax(space, need) == space >= need - 1

\* drainAllowance's test (line 210)
HasAllowance(space, need) == space >= need

\* Send(message, timeout) is called; an empty message is refused at once.
SendCall(s, len, timed) ==
  /\ Runs(s) /\ spc[s] = "idle"
  /\ IF len = 0
     THEN /\ sres' = [sres EXCEPT ![s] = ErrEmpty]
          /\ sAtTerm' = [sAtTerm EXCEPT ![s] = "no"]
          /\ UNCHANGED <<spc, smsg, spos, stimed, nsent, msgXfers>>
     ELSE /\ nsent < MaxMsgs
          /\ nsent' = nsent + 1
          /\ smsg' = [smsg EXCEPT ![s] = Msg(nsent + 1, len)]
          /\ spos' = [spos EXCEPT ![s] = 0]
          /\ stimed' = [stimed EXCEPT ![s] = timed]
          /\ sres' = [sres EXCEPT ![s] = Pending]
          /\ spc' = [spc EXCEPT ![s] = "drain"]
          /\ msgXfers' = [msgXfers EXCEPT ![s] = <<>>]
          /\ sAtTerm' = [sAtTerm EXCEPT ![s] = IF term["B"] THEN "start" ELSE "no"]
  /\ UNCHANGED <<tunVars, netVars, active, connVars, recvVars, cpc, fullySent, recvd,
                 reclaimed, raises, enqueued, granted, drained, sentBytes, paid, grantLog,
                 sendFailed, rAtTerm, closeHist>>

\* sendChunk calls drainAllowance(len(chunk)), which runs under atoiLock.
DrainAllowance(s) ==
  /\ Runs(s) /\ spc[s] = "drain"
  /\ LET need == Len(CurChunk(s)) IN
     IF HasAllowance(atoiSpace, need)
     THEN /\ atoiSpace' = atoiSpace - need
          /\ drained' = drained + need
          /\ paid' = [paid EXCEPT ![s] = need]
          /\ spc' = [spc EXCEPT ![s] = "xfer"]
          /\ UNCHANGED atoiSign
     ELSE \* not enough: reset the grant flag, go and wait
          /\ atoiSign' = FALSE
          /\ spc' = [spc EXCEPT ![s] = "select"]
          /\ UNCHANGED <<atoiSpace, drained, paid>>
  /\ UNCHANGED <<chunkLimit, chunkBuf, itoaBuf, itoaSign, term, stat, panicked,
                 netVars, active, connVars, smsg, spos, stimed, sres, recvVars, cpc,
                 nsent, fullySent, recvd, msgXfers, reclaimed, raises, enqueued,
                 granted, sentBytes, grantLog, sendFailed, sAtTerm, rAtTerm, closeHist>>

\* sendChunk returns t.conn.sendTunnelTransfer(t.id, sizeOrCont, chunk); on
\* success Send goes on with the next chunk or returns nil, on failure Send
\* returns the error.
SendTransfer(s, ok) ==
  /\ Runs(s) /\ spc[s] = "xfer"
  /\ paid' = [paid EXCEPT ![s] = 0]
  /\ IF ok
     THEN LET x == [size |-> SizeOrCont(spos[s], Len(smsg[s])), chunk |-> CurChunk(s)]
              next == spos[s] + chunkLimit
          IN  /\ xferQ' = Append(xferQ, x)
              /\ sentBytes' = sentBytes + Len(x.chunk)
              /\ msgXfers' = [msgXfers EXCEPT ![s] = Append(@, x)]
              /\ spos' = [spos EXCEPT ![s] = next]
              /\ IF next < Len(smsg[s])
                 THEN /\ spc' = [spc EXCEPT ![s] = "drain"]
                      /\ UNCHANGED <<sres, fullySent, stimed>>
                 ELSE /\ spc' = [spc EXCEPT ![s] = "idle"]
                      /\ sres' = [sres EXCEPT ![s] = NoErr]
                      /\ stimed' = [stimed EXCEPT ![s] = FALSE]
                      /\ fullySent' = Append(fullySent, smsg[s])
              /\ UNCHANGED sendFailed
     ELSE /\ spc' = [spc EXCEPT ![s] = "idle"]
          /\ sres' = [sres EXCEPT ![s] = ErrTransport]
          /\ stimed' = [stimed EXCEPT ![s] = FALSE]
          /\ sendFailed' = TRUE
          /\ UNCHANGED <<xferQ, msgXfers, spos, fullySent, sentBytes>>
  /\ UNCHANGED <<tunVars, grants, active, connVars, smsg, recvVars, cpc, nsent,
                 recvd, reclaimed, raises, enqueued, granted, drained, grantLog,
                 sAtTerm, rAtTerm, closeHist>>

\* The select of sendChunk takes one of its ready cases.
SendReturn(s, err) ==
  /\ spc' = [spc EXCEPT ![s] = "idle"]
  /\ sres' = [sres EXCEPT ![s] = err]
  /\ stimed' = [stimed EXCEPT ![s] = FALSE]
  /\ sendFailed' = (sendFailed \/ spos[s] > 0)
  /\ UNCHANGED <<tunVars, netVars, active, connVars, smsg, spos, recvVars, cpc,
                 nsent, fullySent, recvd, msgXfers, reclaimed, raises, enqueued,
                 granted, drained, sentBytes, paid, grantLog, sAtTerm, rAtTerm, closeHist>>

\* case <-t.term
SendSelectTerm(s) ==
  /\ Runs(s) /\ spc[s] = "select"
  /\ term["B"]
  /\ SendReturn(s, ErrClosed)

\* a Send or Recv that arms its timer whatever the timeout
DeadlineSet_always(timed) == TRUE

\* the timer channel is made only for a non-zero timeout (lines 163-166 and
\* 232-235); a nil channel never delivers
DeadlineSet(timed) == timed

\* case <-deadline (a nil channel when the timeout is zero)
SendSelectDeadline(s) ==
  /\ Runs(s) /\ spc[s] = "select"
  /\ DeadlineSet(stimed[s])
  /\ SendReturn(s, ErrTimeout)

\* case <-t.atoiSign: take the token and retry
SendSelectSign(s) ==
  /\ Runs(s) /\ spc[s] = "select"
  /\ atoiSign
  /\ atoiSign' = FALSE
  /\ spc' = [spc EXCEPT ![s] = "drain"]
  /\ UNCHANGED <<chunkLimit, chunkBuf, itoaBuf, itoaSign, atoiSpace, term, stat,
                 panicked, netVars, active, connVars, smsg, spos, stimed, sres, recvVars,
                 cpc, histVars>>

\* ------------------------------------------------------- handleAllowance
\* a handleAllowance that adds the space and raises no signal
HandleAllowance_silent(space) ==
  /\ panicked["B"] = NoPanic
  /\ BagIn(space, grants)
  /\ grants' = grants (-) SetToBag({space})
  /\ atoiSpace' = atoiSpace + space
  /\ granted' = granted + space
  /\ UNCHANGED <<chunkLimit, chunkBuf, itoaBuf, itoaSign, atoiSign, term, stat,
                 panicked, xferQ, active, connVars, sendVars, recvVars, cpc,
                 nsent, fullySent, recvd, msgXfers, reclaimed, raises, enqueued,
                 drained, sentBytes, paid, grantLog, sendFailed, sAtTerm,
                 rAtTerm, closeHist>>

\* The relay delivers one grant to B: space is added and the signal raised,
\* under atoiLock.
HandleAllowance(space) ==
  /\ panicked["B"] = NoPanic
  /\ BagIn(space, grants)
  /\ grants' = grants (-) SetToBag({space})
  /\ atoiSpace' = atoiSpace + space
  /\ atoiSign' = TRUE
  /\ granted' = granted + space
  /\ UNCHANGED <<chunkLimit, chunkBuf, itoaBuf, itoaSign, term, stat, panicked,
                 xferQ, active, connVars, sendVars, recvVars, cpc, nsent, fullySent,
                 recvd, msgXfers, reclaimed, raises, enqueued, drained, sentBytes, paid,
                 grantLog, sendFailed, sAtTerm, rAtTerm, closeHist>>

\* -------------------------------------------------------- handleTransfer
\* cap of the slice append allocates when the bytes do not fit (the Go
\* runtime doubles a small slice and rounds up to an allocation class of 8)
GrowCap(oldcap, needed) ==
  LET want == IF needed > 2 * oldcap THEN needed ELSE 2 * oldcap
  IN  8 * ((want + 7) \div 8)

\* make([]byte, 0, size)
MakeBuf(size) == [nil |-> FALSE, data |-> <<>>, cap |-> size]

\* append(t.chunkBuf, chunk...)
AppendChunk(buf, chunk) ==
  LET n == Len(buf.data) + Len(chunk)
  IN  IF n <= buf.cap
      THEN [buf EXCEPT !.data = @ \o chunk]
      ELSE [nil |-> FALSE, data |-> buf.data \o chunk, cap |-> GrowCap(buf.cap, n)]

\* a grant of the declared size of the discarded message, not of what arrived
PartialGrant_cap(buf) == buf.cap

\* a discard that grants nothing back
PartialGrant_zero(buf) == 0

\* the allowance granted for a discarded partial message (line 320)
PartialGrant(buf) == Len(buf.data)

\* the completion test (line 326)
Complete(buf) == Len(buf.data) = buf.cap

\* a queue that takes new messages at its head
Push_front(q, message) == <<message>> \o q

\* t.itoaBuf.Push(message)
Push(q, message) == Append(q, message)

\* The relay delivers the oldest transfer to A.
HandleTransfer ==
  /\ panicked["A"] = NoPanic
  /\ xferQ # <<>>
  /\ LET size == Head(xferQ).size
         chunk == Head(xferQ).chunk
         dump == size # 0 /\ ~chunkBuf.nil
         start == IF size # 0 THEN MakeBuf(size) ELSE chunkBuf
         buf == AppendChunk(start, chunk)
     IN  /\ xferQ' = Tail(xferQ)
         /\ IF dump
            THEN /\ grants' = SendAllowance(grants, PartialGrant(chunkBuf))
                 /\ grantLog' = grantLog + PartialGrant(chunkBuf)
                 /\ reclaimed' = reclaimed + Len(chunkBuf.data)
            ELSE UNCHANGED <<grants, grantLog, reclaimed>>
         /\ IF Complete(buf)
            THEN /\ itoaBuf' = Push(itoaBuf, buf.data)
                 /\ chunkBuf' = NilBuf
                 /\ itoaSign' = TRUE
                 /\ raises' = raises + 1
                 /\ enqueued' = enqueued + 1
            ELSE /\ chunkBuf' = buf
                 /\ UNCHANGED <<itoaBuf, itoaSign, raises, enqueued>>
  /\ UNCHANGED <<chunkLimit, atoiSpace, atoiSign, term, stat, panicked, active, connVars,
                 sendVars, recvVars, cpc, nsent, fullySent, recvd, msgXfers,
                 granted, drained, sentBytes, paid, sendFailed, sAtTerm, rAtTerm, closeHist>>

\* ---------------------------------------------------- Recv, fetchMessage
\* a grant one byte short of the fetched message
FetchGrant_short(message) == Len(message) - 1

\* a fetch that grants nothing back
FetchGrant_none(message) == 0

\* the allowance granted for a fetched message (line 258)
FetchGrant(message) == Len(message)

\* what t.itoaBuf.Pop() leaves on the queue
PopRest(q) == Tail(q)

\* fetchMessage under itoaLock: the message it returns (nil if none) ...
FetchResult == IF itoaBuf # <<>> THEN Head(itoaBuf) ELSE NilMsg

\* ... and what it does to the tunnel.
FetchMessage ==
  IF itoaBuf # <<>>
  THEN /\ itoaBuf' = PopRest(itoaBuf)
       /\ grants' = SendAllowance(grants, FetchGrant(Head(itoaBuf)))
       /\ grantLog' = grantLog + FetchGrant(Head(itoaBuf))
       /\ recvd' = Append(recvd, Head(itoaBuf))
       /\ UNCHANGED itoaSign
  ELSE /\ itoaSign' = FALSE
       /\ UNCHANGED <<itoaBuf, grants, grantLog, recvd>>

\* Recv(timeout) is called: the short circuit, or on to the select.
RecvCall(r, timed) ==
  /\ Runs(r) /\ rpc[r] = "idle"
  /\ FetchMessage
  /\ rtimed' = [rtimed EXCEPT ![r] = (FetchResult = NilMsg /\ timed)]
  /\ rAtTerm' = [rAtTerm EXCEPT ![r] = IF term["A"] THEN "start" ELSE "no"]
  /\ IF FetchResult # NilMsg
     THEN /\ rres' = [rres EXCEPT ![r] = <<FetchResult, NoErr>>]
          /\ UNCHANGED rpc
     ELSE /\ rres' = [rres EXCEPT ![r] = <<NilMsg, Pending>>]
          /\ rpc' = [rpc EXCEPT ![r] = "select"]
  /\ UNCHANGED <<chunkLimit, chunkBuf, atoiSpace, atoiSign, term, stat, panicked,
                 xferQ, active, connVars, sendVars, cpc, nsent, fullySent, msgXfers,
                 reclaimed, raises, enqueued, granted, drained, sentBytes, paid,
                 sendFailed, sAtTerm, closeHist>>

RecvReturn(r, err) ==
  /\ rpc' = [rpc EXCEPT ![r] = "idle"]
  /\ rres' = [rres EXCEPT ![r] = <<NilMsg, err>>]
  /\ rtimed' = [rtimed EXCEPT ![r] = FALSE]
  /\ UNCHANGED <<tunVars, netVars, active, connVars, sendVars, cpc, histVars>>

\* case <-t.term
RecvSelectTerm(r) ==
  /\ Runs(r) /\ rpc[r] = "select"
  /\ term["A"]
  /\ RecvReturn(r, ErrClosed)

\* case <-after (a nil channel when the timeout is zero)
RecvSelectAfter(r) ==
  /\ Runs(r) /\ rpc[r] = "select"
  /\ DeadlineSet(rtimed[r])
  /\ RecvReturn(r, ErrTimeout)

\* case <-t.itoaSign: take the token, then fetch
RecvSelectSign(r) ==
  /\ Runs(r) /\ rpc[r] = "select"
  /\ itoaSign
  /\ itoaSign' = FALSE
  /\ rpc' = [rpc EXCEPT ![r] = "fetch"]
  /\ UNCHANGED <<chunkLimit, chunkBuf, itoaBuf, atoiSpace, atoiSign, term, stat,
                 panicked, netVars, active, connVars, sendVars, rtimed, rres, cpc,
                 histVars>>

\* the fetch after the signal: a message, or the panic of line 246
RecvFetch(r) ==
  /\ Runs(r) /\ rpc[r] = "fetch"
  /\ FetchMessage
  /\ rpc' = [rpc EXCEPT ![r] = "idle"]
  /\ rtimed' = [rtimed EXCEPT ![r] = FALSE]
  /\ IF FetchResult # NilMsg
     THEN /\ rres' = [rres EXCEPT ![r] = <<FetchResult, NoErr>>]
          /\ UNCHANGED panicked
     ELSE /\ panicked' = [panicked EXCEPT
                            !["A"] = "signal raised but message unavailable"]
          /\ UNCHANGED rres
  /\ UNCHANGED <<chunkLimit, chunkBuf, atoiSpace, atoiSign, term, stat, xferQ,
                 active, connVars, sendVars, cpc, nsent, fullySent, msgXfers,
                 reclaimed, raises, enqueued, granted, drained, sentBytes, paid,
                 sendFailed, sAtTerm, rAtTerm, closeHist>>

\* ------------------------------------------------------------------ Close
\* Close is called: the short circuit when the tunnel is terminal already.
CloseCall(c) ==
  /\ Runs(c) /\ cpc[c] = "idle"
  /\ ncloses < MaxCloses
  /\ ncloses' = ncloses + 1
  /\ IF term["A"]
     THEN /\ closeLog' = Append(closeLog, [res |-> stat["A"], at |-> "start"])
          /\ UNCHANGED <<cpc, cAtTerm>>
     ELSE /\ cpc' = [cpc EXCEPT ![c] = "notify"]
          /\ cAtTerm' = [cAtTerm EXCEPT ![c] = "no"]
          /\ UNCHANGED closeLog
  /\ UNCHANGED <<tunVars, netVars, active, connVars, sendVars, recvVars, nsent, fullySent,
                 recvd, msgXfers, reclaimed, raises, enqueued, granted, drained, sentBytes,
                 paid, grantLog, sendFailed, sAtTerm, rAtTerm, closeSent>>

\* t.conn.sendTunnelClose(t.id): on failure Close returns the error.
CloseNotify(c, ok) ==
  /\ Runs(c) /\ cpc[c] = "notify"
  /\ IF ok
     THEN /\ closeSent' = closeSent + 1
          /\ cpc' = [cpc EXCEPT ![c] = "wait"]
          /\ UNCHANGED closeLog
     ELSE /\ cpc' = [cpc EXCEPT ![c] = "idle"]
          /\ closeLog' = Append(closeLog, [res |-> ErrTransport, at |-> cAtTerm[c]])
          /\ UNCHANGED closeSent
  /\ UNCHANGED <<tunVars, netVars, active, connVars, sendVars, recvVars, nsent, fullySent,
                 recvd, msgXfers, reclaimed, raises, enqueued, granted, drained, sentBytes,
                 paid, grantLog, sendFailed, sAtTerm, rAtTerm, cAtTerm, ncloses>>

\* <-t.term; return t.stat
CloseWait(c) ==
  /\ Runs(c) /\ cpc[c] = "wait"
  /\ term["A"]
  /\ cpc' = [cpc EXCEPT ![c] = "idle"]
  /\ closeLog' = Append(closeLog, [res |-> stat["A"], at |-> cAtTerm[c]])
  /\ UNCHANGED <<tunVars, netVars, active, connVars, sendVars, recvVars, nsent, fullySent,
                 recvd, msgXfers, reclaimed, raises, enqueued, granted, drained, sentBytes,
                 paid, grantLog, sendFailed, sAtTerm, rAtTerm, cAtTerm, closeSent,
                 ncloses>>

\* ------------------------------------------------------------ handleClose
\* the reason handleClose stores (lines 343-348)
StatAfter(old, reason) == IF reason # "" THEN RemoteError(reason) ELSE old

\* The relay delivers a close to endpoint e.  close(t.term) on a channel that
\* is closed already panics.  The history notes the calls it finds blocked
\* with nothing to wake them.
HandleClose(e, reason) ==
  /\ panicked[e] = NoPanic
  /\ stat' = [stat EXCEPT ![e] = StatAfter(@, reason)]
  /\ IF term[e]
     THEN /\ panicked' = [panicked EXCEPT ![e] = "close of closed channel"]
          /\ UNCHANGED term
     ELSE /\ term' = [term EXCEPT ![e] = TRUE]
          /\ UNCHANGED panicked
  /\ sAtTerm' = [s \in Senders |->
                   IF e = "B" /\ spc[s] = "select" /\ ~atoiSign
                   THEN "blocked" ELSE sAtTerm[s]]
  /\ rAtTerm' = [r \in Receivers |->
                   IF e = "A" /\ rpc[r] = "select" /\ ~itoaSign
                   THEN "blocked" ELSE rAtTerm[r]]
  /\ cAtTerm' = [c \in Closers |->
                   IF e = "A" /\ cpc[c] = "wait" THEN "blocked" ELSE cAtTerm[c]]
  /\ UNCHANGED <<chunkLimit, chunkBuf, itoaBuf, itoaSign, atoiSpace, atoiSign,
                 netVars, active, connVars, sendVars, recvVars, cpc, nsent, fullySent,
                 recvd, msgXfers, reclaimed, raises, enqueued, granted, drained, sentBytes,
                 paid, grantLog, sendFailed, closeLog, closeSent, ncloses>>

\* ------------------------------- newTunnel, initTunnel, acceptTunnel
\* a cleanup that leaves the tunnel in the registry
Unregister_keep(live, id) == live

\* delete(c.tunLive, tun.id) (lines 116 and 144)
Unregister(live, id) == [live EXCEPT !.ids = @ \ {id}]

\* c.tunLive[tunId] = tun (line 73)
Register(live, id) == [live EXCEPT !.ids = @ \cup {id}]

\* the call of p returns (tun, err)
ShakeReturn(p, tun, err) ==
  hs' = [hs EXCEPT ![p] = [IdleShaker EXCEPT !.res = <<tun, err>>]]

\* the call of p goes on at pc
ShakeGoto(p, pc) == hs' = [hs EXCEPT ![p].pc = pc]

\* the call of p failed with err: on to the cleanup
ShakeFail(p, err) == hs' = [hs EXCEPT ![p].pc = "cleanup", ![p].err = err]

\* newTunnel under tunLock, for a call of the given kind that goes on at pc:
\* ErrClosed on a connection that is down, else a tunnel with the next id is
\* stored in the registry.  limit is the chunkLimit acceptTunnel assigns
\* (line 130), 0 for initTunnel.
NewTunnel(p, kind, limit, pc) ==
  IF tunLive.nil
  THEN /\ ShakeReturn(p, NoTun, ErrClosed)
       /\ UNCHANGED <<tunLive, tunIdx, tunnels>>
  ELSE /\ tunIdx < MaxTunnels
       /\ tunIdx' = tunIdx + 1
       /\ tunLive' = Register(tunLive, tunIdx)
       /\ tunnels' = [tunnels EXCEPT ![tunIdx] =
                        [NewTun EXCEPT !.chunkLimit = limit, !.agreed = limit]]
       /\ hs' = [hs EXCEPT ![p] = [pc |-> pc, kind |-> kind, tun |-> tunIdx,
                                    err |-> NoErr, res |-> <<NoTun, Pending>>]]

\* initTunnel(cluster, timeout) is called: the sanity checks, then newTunnel.
InitTunnelCall(p, cluster, timeoutms) ==
  /\ hs[p].pc = "idle"
  /\ IF cluster = ""
     THEN /\ ShakeReturn(p, NoTun, ErrCluster)
          /\ UNCHANGED <<tunLive, tunIdx, tunnels>>
     ELSE IF timeoutms < 1
     THEN /\ ShakeReturn(p, NoTun, ErrInvalidTimeout)
          /\ UNCHANGED <<tunLive, tunIdx, tunnels>>
     ELSE NewTunnel(p, "init", 0, "sendinit")
  /\ UNCHANGED <<connTerm, dataVars>>

\* err = c.sendTunnelInit(tun.id, cluster, timeoutms)
SendTunnelInit(p, ok) ==
  /\ hs[p].pc = "sendinit"
  /\ IF ok
     THEN /\ ShakeGoto(p, "select")
          /\ tunnels' = [tunnels EXCEPT ![hs[p].tun].asked = TRUE]
     ELSE /\ ShakeFail(p, ErrTransport)
          /\ UNCHANGED tunnels
  /\ UNCHANGED <<tunLive, tunIdx, connTerm, dataVars>>

\* case init := <-tun.init: initTunnel takes the value of one of the
\* handleInitResult calls waiting to send, and that call returns.
InitSelectInit(p) ==
  /\ hs[p].pc = "select"
  /\ tunnels[hs[p].tun].init # <<>>
  /\ tunnels' = [tunnels EXCEPT ![hs[p].tun].init = Tail(@)]
  /\ IF Head(tunnels[hs[p].tun].init)
     THEN ShakeGoto(p, "allow")
     ELSE ShakeFail(p, ErrTimeout)
  /\ UNCHANGED <<tunLive, tunIdx, connTerm, dataVars>>

\* case <-c.term
InitSelectTerm(p) ==
  /\ hs[p].pc = "select"
  /\ connTerm
  /\ ShakeFail(p, ErrClosed)
  /\ UNCHANGED <<tunLive, tunIdx, connTerm, tunnels, dataVars>>

\* acceptTunnel(initId, chunkLimit) is called: newTunnel, then the chunk
\* limit is stored.
AcceptTunnelCall(p, limit) ==
  /\ hs[p].pc = "idle"
  /\ NewTunnel(p, "accept", limit, "confirm")
  /\ UNCHANGED <<connTerm, dataVars>>

\* err = c.sendTunnelConfirm(initId, tun.id)
SendTunnelConfirm(p, ok) ==
  /\ hs[p].pc = "confirm"
  /\ IF ok THEN ShakeGoto(p, "allow") ELSE ShakeFail(p, ErrTransport)
  /\ UNCHANGED <<tunLive, tunIdx, connTerm, tunnels, dataVars>>

\* c.sendTunnelAllowance(tun.id, defaultTunnelBuffer) of either handshake
\* (lines 103 and 137): on success the tunnel is returned.
SendTunnelAllowance(p, ok) ==
  /\ hs[p].pc = "allow"
  /\ IF ok
     THEN /\ tunnels' = [tunnels EXCEPT ![hs[p].tun].allowances = @ + 1]
          /\ ShakeReturn(p, hs[p].tun, NoErr)
     ELSE /\ ShakeFail(p, ErrTransport)
          /\ UNCHANGED tunnels
  /\ UNCHANGED <<tunLive, tunIdx, connTerm, dataVars>>

\* the clean-up of a failed handshake (lines 115-120 and 143-148)
ShakeCleanup(p) ==
  /\ hs[p].pc = "cleanup"
  /\ tunLive' = Unregister(tunLive, hs[p].tun)
  /\ ShakeReturn(p, NoTun, hs[p].err)
  /\ UNCHANGED <<tunIdx, connTerm, tunnels, dataVars>>

\* ------------------------------------------------------- handleInitResult
\* the value handleInitResult sends on t.init (line 296)
InitOk(limit) == limit > 0

\* The relay answers the initiation of tunnel id, once: the connection finds
\* the tunnel in its registry and calls handleInitResult(limit), which
\* stores a positive limit and then waits to send on the unbuffered init
\* channel until initTunnel receives.
HandleInitResult(id, limit) ==
  /\ id \in tunLive.ids
  /\ tunnels[id].asked
  /\ tunnels[id].results = 0
  /\ tunnels' = [tunnels EXCEPT
                   ![id].chunkLimit = IF limit > 0 THEN limit ELSE @,
                   ![id].agreed = IF limit > 0 THEN limit ELSE @,
                   ![id].results = @ + 1,
                   ![id].init = Append(@, InitOk(limit))]
  /\ UNCHANGED <<tunLive, tunIdx, connTerm, hs, dataVars>>

\* The connection terminates: c.term is closed.
ConnTerminate ==
  /\ ~connTerm
  /\ connTerm' = TRUE
  /\ UNCHANGED <<tunLive, tunIdx, tunnels, hs, dataVars>>

\* --------------------------------------------------------- specifications
\* The application goroutines of the data path.
SendNext ==
  \/ \E s \in Senders, len \in 0..MaxLen, timed \in BOOLEAN : SendCall(s, len, timed)
  \/ \E s \in Senders : DrainAllowance(s)
  \/ \E s \in Senders, ok \in BOOLEAN : SendTransfer(s, ok)
  \/ \E s \in Senders : SendSelectDeadline(s)
  \/ \E s \in Senders : SendSelectSign(s)

RecvNext ==
  \/ \E r \in Receivers, timed \in BOOLEAN : RecvCall(r, timed)
  \/ \E r \in Receivers : RecvSelectAfter(r)
  \/ \E r \in Receivers : RecvSelectSign(r)
  \/ \E r \in Receivers : RecvFetch(r)

\* The relay delivers what the endpoints sent.
RelayNext ==
  \/ \E space \in BagToSet(grants) : HandleAllowance(space)
  \/ HandleTransfer

\* The connection delivers one close to a tunnel and then drops the tunnel
\* from its registry.
HandleCloseOnce == \E e \in Ends, reason \in Reasons : ~term[e] /\ HandleClose(e, reason)

\* A relay that delivers a close to a tunnel again (a peer close followed by
\* the termination of the connection).
HandleCloseAgain == \E e \in Ends, reason \in Reasons : term[e] /\ HandleClose(e, reason)

TermNext ==
  \/ HandleCloseOnce
  \/ \E s \in Senders : SendSelectTerm(s)
  \/ \E r \in Receivers : RecvSelectTerm(r)

CloseNext ==
  \/ \E c \in Closers : CloseCall(c)
  \/ \E c \in Closers, ok \in BOOLEAN : CloseNotify(c, ok)
  \/ \E c \in Closers : CloseWait(c)

\* The open tunnel: one sender on B, one receiver on A, the relay between.
Next == SendNext \/ RecvNext \/ RelayNext

Spec == Init /\ [][Next]_vars

\* The same tunnel with the relay closing either endpoint at any moment.
NextTerm == Next \/ TermNext

SpecTerm == Init /\ [][NextTerm]_vars

\* Close callers on A and the relay's close events, no data.
NextClose == CloseNext \/ HandleCloseOnce

SpecClose == Init /\ [][NextClose]_vars

NextReclose == NextClose \/ HandleCloseAgain

SpecReclose == Init /\ [][NextReclose]_vars

\* Two goroutines call Recv on A at once; one sends on B.
SpecRecv2 == InitOf({"s1", "r1", "r2"}) /\ [][Next]_vars

\* Two goroutines call Send on B at once; one receives on A.
SpecSend2 == InitOf({"s1", "s2", "r1"}) /\ [][Next]_vars

\* The steps of a Send call with timeout zero over a transport that does not
\* fail, once the call is made ...
SendStep(s) == DrainAllowance(s) \/ SendTransfer(s, TRUE) \/ SendSelectSign(s)

\* ... and of a goroutine that calls Recv(0) again and again.
RecvLoop(r) == RecvCall(r, FALSE) \/ RecvSelectSign(r) \/ RecvFetch(r)

NextLive ==
  \/ \E s \in Senders, len \in 1..MaxLen : SendCall(s, len, FALSE)
  \/ \E s \in Senders : SendStep(s)
  \/ \E r \in Receivers : RecvLoop(r)
  \/ RelayNext

\* The Go scheduler runs every goroutine that can take a step, and the relay
\* delivers every transfer and every grant.
Fairness ==
  /\ \A s \in Senders : WF_vars(SendStep(s))
  /\ \A r \in Receivers : WF_vars(RecvLoop(r))
  /\ WF_vars(HandleTransfer)
  /\ WF_vars(\E space \in BagToSet(grants) : HandleAllowance(space))

\* The open tunnel, never closed, under fair scheduling: one sender, one
\* receiver, timeouts zero.
SpecLive == Init /\ [][NextLive]_vars /\ Fairness

\* The handshakes of one connection: two goroutines initiate and accept
\* tunnels, the relay answers the initiations, the connection may terminate.
NextShake ==
  \/ \E p \in Shakers, cluster \in Clusters, timeoutms \in Timeouts :
       InitTunnelCall(p, cluster, timeoutms)
  \/ \E p \in Shakers, ok \in BOOLEAN : SendTunnelInit(p, ok)
  \/ \E p \in Shakers : InitSelectInit(p)
  \/ \E p \in Shakers : InitSelectTerm(p)
  \/ \E p \in Shakers, limit \in ChunkLimits : AcceptTunnelCall(p, limit)
  \/ \E p \in Shakers, ok \in BOOLEAN : SendTunnelConfirm(p, ok)
  \/ \E p \in Shakers, ok \in BOOLEAN : SendTunnelAllowance(p, ok)
  \/ \E p \in Shakers : ShakeCleanup(p)
  \/ \E id \in TunIds, limit \in {0} \cup ChunkLimits : HandleInitResult(id, limit)
  \/ ConnTerminate

\* (No goroutine calls into the data path, which stands still.)
InitShake == InitData({}) /\ chunkLimit = 1 /\ ConnFresh

SpecShake == InitShake /\ [][NextShake]_vars

\* The steps of a Recv(0) call once it is made.
RecvStep(r) == RecvSelectSign(r) \/ RecvFetch(r)

\* As Fairness, but a goroutine need not call Recv again once its call has
\* returned.
FairnessInCall ==
  /\ \A s \in Senders : WF_vars(SendStep(s))
  /\ \A r \in Receivers : WF_vars(RecvStep(r))
  /\ WF_vars(HandleTransfer)
  /\ WF_vars(\E space \in BagToSet(grants) : HandleAllowance(space))

\* The open tunnel under fair scheduling with two goroutines in Recv(0).
SpecLiveRecv2 ==
  InitOf({"s1", "r1", "r2"}) /\ [][NextLive]_vars /\ FairnessInCall

\* ------------------------------------------------------------------ claims
IsPrefix(a, b) == Len(a) <= Len(b) /\ SubSeq(b, 1, Len(a)) = a

CeilDiv(a, b) == (a + b - 1) \div b

RECURSIVE SumPaid(_)
SumPaid(S) ==
  IF S = {} THEN 0
  ELSE LET s == CHOOSE x \in S : TRUE IN paid[s] + SumPaid(S \ {s})

\* bytes A holds: the inbound queue plus the reassembly buffer
Held == SumLen(itoaBuf) + Len(chunkBuf.data)

\* C1: the messages Recv has returned, followed by those still queued, are
\* the fully sent messages in send order, each once; with no transfer in
\* flight none is missing.
C1_FifoExactlyOnce ==
  /\ IsPrefix(recvd \o itoaBuf, fullySent)
  /\ xferQ = <<>> => recvd \o itoaBuf = fullySent

\* two messages were queued together and Recv has returned both
C1_Witness ==
  /\ Len(recvd) >= 2
  /\ recvd = fullySent
  /\ enqueued >= 2 /\ raises >= 2

\* C2: a Send call emits, in order, the consecutive slices of at most
\* chunkLimit bytes of its message, the first tagged with the length and the
\* others with 0, ceil(L/C) of them when it returns nil; handleTransfer
\* rebuilds from them exactly the original bytes, and pushes a message and
\* raises the arrival signal once per message, on its last chunk.
C2_ChunkRoundTrip ==
  /\ \A s \in active \cap Senders :
       LET L == Len(smsg[s])
           n == Len(msgXfers[s])
       IN  /\ \A i \in 1..n :
                /\ msgXfers[s][i].chunk =
                     SubSeq(smsg[s], (i - 1) * chunkLimit + 1, Min(i * chunkLimit, L))
                /\ Len(msgXfers[s][i].chunk) \in 1..chunkLimit
                /\ msgXfers[s][i].size = IF i = 1 THEN L ELSE 0
           /\ n <= CeilDiv(L, chunkLimit)
           /\ (spc[s] = "idle" /\ sres[s] = NoErr) => n = CeilDiv(L, chunkLimit)
  /\ raises = enqueued
  /\ enqueued = Len(recvd) + Len(itoaBuf)
  /\ IsPrefix(recvd \o itoaBuf, fullySent)
  /\ xferQ = <<>> => enqueued = Len(fullySent)
  /\ ~chunkBuf.nil =>
       /\ Len(chunkBuf.data) \in 1..(chunkBuf.cap - 1)
       /\ chunkBuf.data =
            SubSeq(Msg(chunkBuf.data[1] \div 10, chunkBuf.cap), 1, Len(chunkBuf.data))

\* a message longer than the chunk limit went out in two or more transfers
\* and came back whole through Recv
C2_Witness ==
  /\ spc["s1"] = "idle" /\ sres["s1"] = NoErr
  /\ Len(msgXfers["s1"]) >= 2
  /\ recvd # <<>>
  /\ recvd[Len(recvd)] = smsg["s1"]
  /\ raises = Len(recvd)

\* C3: the outbound credit is never negative, it is what handleAllowance
\* added less what drainAllowance subtracted, and a chunk is handed to
\* sendTunnelTransfer only with its whole length subtracted before.
C3_CreditNeverOverspent ==
  /\ atoiSpace >= 0
  /\ atoiSpace = granted - drained
  /\ \A s \in Senders : paid[s] = IF spc[s] = "xfer" THEN Len(CurChunk(s)) ELSE 0
  /\ sentBytes + SumPaid(Senders) <= drained
  /\ drained <= granted

\* the whole initial credit is spent and the sender waits for more
C3_Witness ==
  /\ atoiSpace = 0
  /\ drained >= DefaultTunnelBuffer
  /\ sentBytes = drained
  /\ spc["s1"] = "select"

\* every transfer handled, every message returned, every grant delivered,
\* no Send in progress
Quiescent ==
  /\ xferQ = <<>>
  /\ BagToSet(grants) = {}
  /\ itoaBuf = <<>>
  /\ chunkBuf.nil
  /\ \A s \in Senders : spc[s] = "idle"
  /\ recvd = fullySent

\* C4: in a session where no Send failed after spending credit, once all is
\* delivered the bytes A granted after the handshake are the bytes B's Send
\* calls consumed, and B's credit is the initial credit again.
C4_CreditConservation ==
  (Quiescent /\ ~sendFailed) =>
     /\ grantLog = drained
     /\ grantLog = SumLen(fullySent)
     /\ granted = DefaultTunnelBuffer + grantLog
     /\ atoiSpace = DefaultTunnelBuffer

\* two messages went through and all grants are back
C4_Witness ==
  /\ Quiescent /\ ~sendFailed
  /\ Len(recvd) >= 2
  /\ atoiSpace = DefaultTunnelBuffer

\* C5: the bytes A holds, with the bytes in flight to A and the credit B
\* holds or is about to receive, never exceed the initial credit.
C5_BoundedInbound ==
  /\ Held <= DefaultTunnelBuffer
  /\ Held + SumChunks(xferQ) + SumPaid(Senders) + atoiSpace + SumBag(grants)
       <= DefaultTunnelBuffer

\* the queue and the reassembly buffer together hold the whole initial credit
C5_Witness ==
  /\ Held = DefaultTunnelBuffer
  /\ itoaBuf # <<>>
  /\ ~chunkBuf.nil

\* C6: a transfer with a non-zero size that meets a partial buffer of P bytes
\* grants exactly P bytes back, pushes none of the partial bytes and leaves
\* only its own chunk in the new buffer; any other transfer grants nothing.
C6_ReclaimExact ==
  [][(xferQ # <<>> /\ xferQ' = Tail(xferQ)) =>
       IF Head(xferQ).size # 0 /\ ~chunkBuf.nil
       THEN /\ grants' = grants (+) SetToBag({Len(chunkBuf.data)})
            /\ \/ itoaBuf' = itoaBuf /\ chunkBuf'.data = Head(xferQ).chunk
               \/ itoaBuf' = Append(itoaBuf, Head(xferQ).chunk) /\ chunkBuf'.nil
       ELSE grants' = grants]_vars

\* a partial message was discarded and its grant is on its way
C6_Witness ==
  /\ reclaimed > 0
  /\ BagIn(reclaimed, grants)

\* C7: Close called twice, one call after the other or from two callers at
\* once, returns the same result both times and sendTunnelClose goes out at
\* most once.  (A Close whose own sendTunnelClose failed is left out of the
\* comparison.)
C7_IdempotentClose ==
  /\ closeSent <= 1
  /\ \A i, j \in DOMAIN closeLog :
       (closeLog[i].res # ErrTransport /\ closeLog[j].res # ErrTransport)
         => closeLog[i].res = closeLog[j].res

\* C8: a Send or Recv call that begins on a terminal tunnel sends no
\* transfer, returns no message and fails with Closed.  (A call with a
\* deadline may lose to it, and a failing transport may answer first.)
C8_ClosedAfterTerm ==
  /\ \A s \in Senders :
       sAtTerm[s] = "start" =>
         /\ msgXfers[s] = <<>>
         /\ spc[s] = "idle" => sres[s] \in {ErrClosed, ErrTimeout, ErrTransport}
  /\ \A r \in Receivers :
       (rAtTerm[r] = "start" /\ rpc[r] = "idle") =>
         rres[r] \in {<<NilMsg, ErrClosed>>, <<NilMsg, ErrTimeout>>}

\* C9: a Close that begins after handleClose, or that handleClose finds
\* blocked, returns the stored reason (nil after handleClose(""), the remote
\* error after handleClose(r)); a Send or Recv that handleClose finds blocked
\* returns Closed.  (A call with a deadline may lose to it, and a failing
\* transport may answer first.)
C9_WakeClosed ==
  /\ \A i \in DOMAIN closeLog :
       closeLog[i].at \in {"start", "blocked"} =>
         /\ closeLog[i].res = stat["A"]
         /\ closeLog[i].res \in {NoErr} \cup {RemoteError(r) : r \in Reasons \ {""}}
  /\ \A s \in Senders :
       (sAtTerm[s] = "blocked" /\ spc[s] = "idle") =>
         sres[s] \in {ErrClosed, ErrTimeout, ErrTransport}
  /\ \A r \in Receivers :
       (rAtTerm[r] = "blocked" /\ rpc[r] = "idle") =>
         rres[r] \in {<<NilMsg, ErrClosed>>, <<NilMsg, ErrTimeout>>}

\* C10: once the terminal signal is raised it stays raised, and a further
\* handleClose neither faults nor changes the stored reason.
C10_TermWriteOnce ==
  [][\A e \in Ends :
       term[e] => /\ term'[e]
                  /\ stat'[e] = stat[e]
                  /\ panicked'[e] = NoPanic]_vars

\* C11: a Send or Recv with a non-zero timeout that waits with no credit or
\* no message, no pending signal and the tunnel open can return at once with
\* Timeout, and returns nothing else while nothing happens; a step that
\* returns Timeout leaves the terminal signal, the stored reason and the
\* inbound queue as they were and raises no fault; a call with timeout zero
\* never returns Timeout.
C11_TimeoutSemantics ==
  [][/\ \A s \in active \cap Senders :
          /\ (spc[s] = "select" /\ stimed[s] /\ panicked["B"] = NoPanic) =>
                ENABLED SendSelectDeadline(s)
          /\ (spc[s] = "select" /\ stimed[s] /\ ~atoiSign /\ ~term["B"]
                /\ spc'[s] # "select") =>
                (spc'[s] = "idle" /\ sres'[s] = ErrTimeout)
          /\ (sres'[s] = ErrTimeout /\ sres[s] # ErrTimeout) =>
                /\ stimed[s] /\ spc[s] = "select"
                /\ term' = term /\ stat' = stat /\ itoaBuf' = itoaBuf
                /\ panicked' = panicked
     /\ \A r \in active \cap Receivers :
          /\ (rpc[r] = "select" /\ rtimed[r] /\ panicked["A"] = NoPanic) =>
                ENABLED RecvSelectAfter(r)
          /\ (rpc[r] = "select" /\ rtimed[r] /\ ~itoaSign /\ ~term["A"]
                /\ rpc'[r] # "select") =>
                (rpc'[r] = "idle" /\ rres'[r] = <<NilMsg, ErrTimeout>>)
          /\ (rres'[r][2] = ErrTimeout /\ rres[r][2] # ErrTimeout) =>
                /\ rtimed[r] /\ rpc[r] = "select"
                /\ rres'[r][1] = NilMsg
                /\ term' = term /\ stat' = stat /\ itoaBuf' = itoaBuf
                /\ panicked' = panicked]_vars

\* a Send and a Recv both timed out, the tunnel is open on both sides, and a
\* message that arrived after the Recv gave up waits in the queue
C11_Witness ==
  /\ spc["s1"] = "idle" /\ sres["s1"] = ErrTimeout
  /\ rpc["r1"] = "idle" /\ rres["r1"] = <<NilMsg, ErrTimeout>>
  /\ term = [e \in Ends |-> FALSE]
  /\ stat = [e \in Ends |-> NoErr]
  /\ itoaBuf # <<>>

\* C12: a Recv that has taken the arrival signal finds a message when it
\* fetches, whatever the number of Recv callers: the fault 'signal raised but
\* message unavailable' is never raised.
C12_NoRecvPanic == panicked["A"] # "signal raised but message unavailable"

\* C13: with timeouts zero, the receiver calling Recv again and again, every
\* transfer and grant delivered and no close, every Send call of a non-empty
\* message of any length eventually returns nil and its message is
\* eventually returned by Recv.
C13_NoStarvation ==
  /\ (spc["s1"] # "idle") ~> (spc["s1"] = "idle" /\ sres["s1"] = NoErr)
  /\ \A k \in 1..MaxMsgs : (nsent >= k) ~> (Len(recvd) >= k)

\* C14: no relay-event handler waits for ever: a handleInitResult call that
\* waits to send on the init channel of a tunnel always has the initTunnel
\* call of that tunnel in its select to receive from it.
C14_HandlersNeverBlock ==
  \A id \in TunIds :
    tunnels[id].init # <<>> =>
      \E p \in Shakers : hs[p].tun = id /\ hs[p].pc = "select"

\* C15: when initTunnel or acceptTunnel returns after having registered a
\* tunnel, then with an error (transport failure, Timeout after a rejection,
\* Closed after the connection terminated) the tunnel id is out of the
\* registry, and with a tunnel that tunnel is registered, its chunkLimit is
\* the value agreed (positive on the initiating side) and one grant of the
\* default credit was sent for it; the registry holds the tunnels of the
\* handshakes in progress and of those that succeeded, no others.
C15_HandshakeCleanup ==
  [][/\ \A p \in Shakers :
          (hs[p].pc \in {"allow", "cleanup"} /\ hs'[p].pc = "idle") =>
            LET id == hs[p].tun IN
            IF hs'[p].res[2] # NoErr
            THEN /\ hs'[p].res = <<NoTun, hs[p].err>>
                 /\ hs[p].err \in {ErrTransport, ErrTimeout, ErrClosed}
                 /\ id \notin tunLive'.ids
                 /\ tunnels'[id].allowances = 0
            ELSE /\ hs'[p].res[1] = id
                 /\ id \in tunLive'.ids
                 /\ tunnels'[id].chunkLimit = tunnels'[id].agreed
                 /\ hs[p].kind = "init" =>
                      (tunnels'[id].chunkLimit > 0 /\ tunnels'[id].results = 1)
                 /\ tunnels'[id].allowances = 1
     /\ \A id \in TunIds :
          id \in tunLive'.ids <=>
            \/ \E p \in Shakers : hs'[p].pc # "idle" /\ hs'[p].tun = id
            \/ tunnels'[id].allowances = 1]_vars

\* one initiation was rejected and returned Timeout, another returned its
\* tunnel: the registry holds the second tunnel alone
C15_Witness ==
  \E p, q \in Shakers :
    /\ hs[p].pc = "idle" /\ hs[p].res = <<NoTun, ErrTimeout>>
    /\ hs[q].pc = "idle" /\ hs[q].res = <<1, NoErr>>
    /\ tunLive.ids = {1}
    /\ tunnels[0].results = 1 /\ tunnels[0].allowances = 0
    /\ tunnels[1].asked /\ tunnels[1].chunkLimit = MaxChunk
    /\ tunnels[1].allowances = 1

\* C16: once handleClose has raised the terminal signal of the receiving
\* endpoint, no step adds a message to its inbound queue: the queue only
\* shrinks.
C16_NoArrivalAfterTerm ==
  [][term["A"] =>
       /\ Len(itoaBuf') <= Len(itoaBuf)
       /\ enqueued' = enqueued]_vars

\* C17: a step in which Recv returns a message pops the head of the inbound
\* queue, returns it with a nil error and puts exactly one grant of the
\* message's length on its way, in the same step; every Recv that returns a
\* nil error returns a message in this way; a Recv that returns Timeout or
\* Closed sends no grant.
C17_RecvRepays ==
  [][/\ recvd' # recvd =>
          /\ itoaBuf # <<>>
          /\ recvd' = Append(recvd, Head(itoaBuf))
          /\ itoaBuf' = Tail(itoaBuf)
          /\ grants' = grants (+) SetToBag({Len(Head(itoaBuf))})
          /\ \E r \in Receivers :
               /\ rpc[r] \in {"idle", "fetch"} /\ rpc'[r] = "idle"
               /\ rres'[r] = <<Head(itoaBuf), NoErr>>
     /\ \A r \in Receivers :
          /\ (rres'[r] # rres[r] /\ rres'[r][2] = NoErr) =>
                (recvd' # recvd /\ rres'[r][1] # NilMsg)
          /\ (rres'[r] # rres[r] /\ rres'[r][2] \in {ErrTimeout, ErrClosed}) =>
                (grants' = grants /\ grantLog' = grantLog /\ itoaBuf' = itoaBuf)]_vars

\* Recv has returned a 2-byte message, on a tunnel the relay has closed, and
\* the grant of 2 bytes is the only one on its way
C17_Witness ==
  /\ Len(recvd) = 1 /\ Len(recvd[1]) = 2
  /\ rres["r1"] = <<recvd[1], NoErr>>
  /\ grants = SetToBag({2})
  /\ grantLog = 2
  /\ term["A"]

\* C18: with a single sender and timeouts zero, a Send that waits for credit
\* has sent nothing for its chunk and leaves the wait only by taking the
\* grant signal; whenever it waits with credit enough for the chunk the
\* signal is raised (no grant is lost between drainAllowance's reset and the
\* select), and it then goes on to deduct the chunk's length and hand the
\* chunk to sendTunnelTransfer.
C18_NoLostWakeup ==
  /\ [](\A s \in Senders :
          spc[s] = "select" =>
            /\ paid[s] = 0
            /\ atoiSpace >= Len(CurChunk(s)) => atoiSign)
  /\ [][\A s \in Senders :
          spc[s] = "select" =>
            /\ msgXfers'[s] = msgXfers[s]
            /\ spc'[s] # "select" => (atoiSign /\ spc'[s] = "drain")]_vars
  /\ \A s \in Senders :
       (spc[s] = "select" /\ atoiSpace >= Len(CurChunk(s)))
         ~> (spc[s] = "xfer" /\ paid[s] = Len(CurChunk(s)))

\* the sender waits for credit and a grant delivered after its failed
\* attempt has brought the credit up to what the chunk needs
C18_Witness ==
  /\ spc["s1"] = "select"
  /\ granted > DefaultTunnelBuffer
  /\ atoiSpace >= Len(CurChunk("s1"))
  /\ atoiSign

\* C19: in the sequence of transfers handed to the relay, a continuation
\* chunk (tag 0) directly follows the chunk of the same message that ends
\* where it begins: the chunks of a message go out in order with no chunk of
\* another message between them.
C19_NoInterleave ==
  \A i \in 1..(Len(xferQ) - 1) :
    xferQ[i + 1].size = 0 =>
      xferQ[i + 1].chunk[1] = xferQ[i].chunk[Len(xferQ[i].chunk)] + 1

\* C20: with two goroutines in Recv(0) on an open tunnel, none stays blocked
\* for ever while the inbound queue holds a message: a blocked Recv with a
\* message queued is eventually released, or the queue is emptied by others.
\* (The fault of C12 is set aside.)
C20_NoLostArrival ==
  \A r \in Receivers :
    (rpc[r] = "select" /\ itoaBuf # <<>>)
      ~> (rpc[r] # "select" \/ itoaBuf = <<>> \/ panicked["A"] # NoPanic)

====
